---- MODULE Spec2Model ----
(***************************************************************************)
(* A model of scrape.py: the schedule-string parser (parse_time), the      *)
(* table extractor (parse_table) with the markup repair of fetch.f, the    *)
(* catalog index parser (fetch.parse_select) and the thread-pool crawl of  *)
(* fetch() followed by write_to_db.                                        *)
(*                                                                         *)
(* Text is a sequence of one-character strings.  A fetched document is a   *)
(* sequence of lexemes (opening tag, closing tag, text), the units on      *)
(* which both the regular expressions of the repair and the HTML parser    *)
(* work.                                                                   *)
(***************************************************************************)
EXTENDS Integers, Sequences, FiniteSets, TLC

VARIABLES
    \* ---- parse_time, run token by token
    ptIn,       \* course_times, the argument
    ptToks,     \* tokens the for loop has still to visit
    ptTimes,    \* the dict times
    ptPc,       \* "idle" | "loop" | "done"
    \* ---- fetch.parse_select, run child by child
    selIn,      \* children of the select element
    selRest,    \* children the for loop has still to visit
    selOut,     \* the list out
    selPc,      \* "idle" | "loop" | "done" | "raised"
    \* ---- fetch.f on one response
    rpRows,     \* the rows the server rendered (their markup shapes)
    rpText,     \* r.text / html_normalized, as lexemes
    rpOut,      \* what f returns
    rpPc,       \* "idle" | "got" | "repaired" | "done" | "raised"
    \* ---- fetch() and __main__
    landing,    \* the landing page
    terms, subjects,
    pc,         \* position of the main thread
    nSubmitted, \* pairs of the submission loop already submitted
    fs,         \* the futures, in submission order
    queue,      \* the executor's work queue (indices into fs)
    threads,    \* worker threads the executor has started
    idleSem,    \* the executor's idle semaphore
    finished, pending,  \* what futures.wait returned
    exc,        \* the exception fetch() is raising, or NoExc
    ret,        \* Ok(the list fetch() is returning), or NoRet
    query       \* Ok(what write_to_db printed), or NoRet

ptVars  == <<ptIn, ptToks, ptTimes, ptPc>>
selVars == <<selIn, selRest, selOut, selPc>>
rpVars  == <<rpRows, rpText, rpOut, rpPc>>
crVars  == <<landing, terms, subjects, pc, nSubmitted, fs, queue, threads,
             idleSem, finished, pending, exc, ret, query>>
vars    == <<ptVars, selVars, rpVars, crVars>>

----------------------------------------------------------------------------
(* Generic helpers *)

Range(s) == {s[i] : i \in 1..Len(s)}

Max(S) == CHOOSE x \in S : \A y \in S : y <= x

SeqsUpTo(S, n) == UNION {[1..k -> S] : k \in 0..n}

\* the concatenation of a sequence of sequences (by halves)
RECURSIVE Flatten(_)
Flatten(ss) ==
    IF Len(ss) = 0 THEN <<>>
    ELSE IF Len(ss) = 1 THEN ss[1]
    ELSE Flatten(SubSeq(ss, 1, Len(ss) \div 2))
         \o Flatten(SubSeq(ss, Len(ss) \div 2 + 1, Len(ss)))

\* What a call that may raise yields: the value returned, or the exception
Ok(v) == [ok |-> v]
Raised(kind) == [raised |-> kind]
IsRaised(v) == "raised" \in DOMAIN v

----------------------------------------------------------------------------
(* Characters *)

UpperChars == {"A","B","C","D","E","F","G","H","I","J","K","L","M",
               "N","O","P","Q","R","S","T","U","V","W","X","Y","Z"}
DigitChars == {"0","1","2","3","4","5","6","7","8","9"}
SpaceChars == {" ", "\n", "\t"}

DigitVal(c) == CASE c = "0" -> 0 [] c = "1" -> 1 [] c = "2" -> 2 [] c = "3" -> 3
                 [] c = "4" -> 4 [] c = "5" -> 5 [] c = "6" -> 6 [] c = "7" -> 7
                 [] c = "8" -> 8 [] c = "9" -> 9

\* str.split(sep) for a one-character separator: the pieces between the
\* separators, empty pieces included
SplitChar(s, sep) ==
    LET at == {i \in 1..Len(s) : s[i] = sep}
        \* the position of the k-th separator; 0 and Len(s) + 1 fence the string
        Pos(k) == IF k = 0 THEN 0
                  ELSE IF k > Cardinality(at) THEN Len(s) + 1
                  ELSE CHOOSE p \in at : Cardinality({q \in at : q <= p}) = k
    IN  [k \in 1..(Cardinality(at) + 1) |-> SubSeq(s, Pos(k - 1) + 1, Pos(k) - 1)]

\* int() of a run of decimal digits
RECURSIVE DigitsVal(_, _)
DigitsVal(s, acc) ==
    IF s = <<>> THEN acc ELSE DigitsVal(Tail(s), 10 * acc + DigitVal(Head(s)))

\* str.strip()
RECURSIVE LStrip(_)
LStrip(s) == IF s # <<>> /\ Head(s) \in SpaceChars THEN LStrip(Tail(s)) ELSE s
RECURSIVE RStrip(_)
RStrip(s) == IF s # <<>> /\ s[Len(s)] \in SpaceChars
             THEN RStrip(SubSeq(s, 1, Len(s) - 1)) ELSE s

\* int(text): surrounding whitespace and one sign are accepted, then digits
ParseInt(s) ==
    LET t == RStrip(LStrip(s))
        signed == t # <<>> /\ Head(t) \in {"+", "-"}
        d == IF signed THEN Tail(t) ELSE t
    IN  IF d = <<>> \/ \E i \in 1..Len(d) : d[i] \notin DigitChars
        THEN Raised("ValueError")
        ELSE IF signed /\ Head(t) = "-" THEN Ok(0 - DigitsVal(d, 0))
        ELSE Ok(DigitsVal(d, 0))

----------------------------------------------------------------------------
(* parse_time *)

Time(h, m) == [hour |-> h, minute |-> m]
TimeSpan(s, e) == [start |-> s, end |-> e]

\* the part of the pattern after the days group, tried at position p:
\* ':' \d{2} \d{2} '-' \d{2} \d{2}
TailMatches(tok, p) ==
    /\ Len(tok) >= p + 9
    /\ tok[p] = ":"
    /\ \A i \in (p + 1)..(p + 4) : tok[i] \in DigitChars
    /\ tok[p + 5] = "-"
    /\ \A i \in (p + 6)..(p + 9) : tok[i] \in DigitChars

\* re.match(pattern, time): anchored at the start of the token only; the
\* greedy group [A-Z]+ takes the longest run for which the rest matches.
\* The length of the days group, or 0 for None.
ReMatch(tok) ==
    LET runs == {n \in 1..Len(tok) : \A i \in 1..n : tok[i] \in UpperChars}
        ok == {n \in runs : TailMatches(tok, n + 1)}
    IN  IF ok = {} THEN 0 ELSE Max(ok)

TwoDigits(tok, p) == DigitsVal(SubSeq(tok, p, p + 1), 0)

MatchSpan(tok, n) ==
    TimeSpan(Time(TwoDigits(tok, n + 2), TwoDigits(tok, n + 4)),
             Time(TwoDigits(tok, n + 7), TwoDigits(tok, n + 9)))

\* a dict update that keeps the entry a day already has
DictUpdateKeepFirst(times, days, span) ==
    [d \in DOMAIN times \cup Range(days) |->
        IF d \in DOMAIN times THEN times[d] ELSE span]

\* times.update({day: time_span for day in days})
DictUpdate(times, days, span) ==
    [d \in DOMAIN times \cup Range(days) |->
        IF d \in Range(days) THEN span ELSE times[d]]

\* [t for t in course_times.split(' ') if t != '']
TimeTokens(course_times) ==
    SelectSeq(SplitChar(course_times, " "), LAMBDA t : t # <<>>)

EmptyDict == [d \in {} |-> 0]

\* the body of the for loop on one token
ParseTimeBody(times, tok) ==
    LET n == ReMatch(tok)
    IN  IF n = 0 THEN times
        ELSE DictUpdate(times, SubSeq(tok, 1, n), MatchSpan(tok, n))

RECURSIVE ParseTimeLoop(_, _)
ParseTimeLoop(times, toks) ==
    IF toks = <<>> THEN times
    ELSE ParseTimeLoop(ParseTimeBody(times, Head(toks)), Tail(toks))

parse_time(course_times) == ParseTimeLoop(EmptyDict, TimeTokens(course_times))

----------------------------------------------------------------------------
(* HTML: lexemes of a document's text, and the tree BeautifulSoup builds *)

NoAttrs == [a \in {} |-> ""]

OpenTag(name, attrs) == [k |-> "open", name |-> name, attrs |-> attrs]
CloseTag(name) == [k |-> "close", name |-> name]
TextLx(s) == [k |-> "text", s |-> s]

\* tree nodes: a Tag, or a NavigableString
Tag(name, attrs, kids) == [name |-> name, attrs |-> attrs, kids |-> kids]
NavString(s) == [string |-> s]
IsTag(n) == "name" \in DOMAIN n

\* BeautifulSoup.endData: a string that is all ASCII whitespace is stored as
\* a single newline if it holds one, and as a single space otherwise
AsciiSpaces == {" ", "\n", "\t", "\f", "\r"}
EndData(s) ==
    IF \A i \in 1..Len(s) : s[i] \in AsciiSpaces
    THEN (IF "\n" \in Range(s) THEN <<"\n">> ELSE <<" ">>)
    ELSE s

\* BeautifulSoup.popTag: the innermost open tag is closed into its parent
PopTag(stack) ==
    LET n == Len(stack)
    IN  Append(SubSeq(stack, 1, n - 2),
               [stack[n - 1] EXCEPT !.kids = Append(@, stack[n])])

RECURSIVE PopTimes(_, _)
PopTimes(stack, n) == IF n = 0 THEN stack ELSE PopTimes(PopTag(stack), n - 1)

\* BeautifulSoup._popToTag: an end tag closes every tag up to and including
\* the innermost open tag of its name; with no such tag open it is ignored
PopToTag(stack, name) ==
    LET open == {i \in 2..Len(stack) : stack[i].name = name}
    IN  IF open = {} THEN stack ELSE PopTimes(stack, Len(stack) - Max(open) + 1)

\* one parser event: handle_starttag, handle_endtag, handle_data
Feed(stack, lx) ==
    CASE lx.k = "open"  -> Append(stack, Tag(lx.name, lx.attrs, <<>>))
      [] lx.k = "close" -> PopToTag(stack, lx.name)
      [] lx.k = "text"  ->
            IF lx.s = <<>> THEN stack
            ELSE [stack EXCEPT ![Len(stack)].kids = Append(@, NavString(EndData(lx.s)))]

\* the events of a text in order (the text is fed by halves)
RECURSIVE FeedAll(_, _)
FeedAll(stack, text) ==
    IF Len(stack) = 0 \/ Len(text) = 0 THEN stack
    ELSE IF Len(text) = 1 THEN Feed(stack, text[1])
    ELSE FeedAll(FeedAll(stack, SubSeq(text, 1, Len(text) \div 2)),
                 SubSeq(text, Len(text) \div 2 + 1, Len(text)))

\* character data between two tags reaches endData as one string
Coalesce(text) ==
    LET RunEnd(i) == Max({j \in i..Len(text) : \A m \in i..j : text[m].k = "text"})
    IN  Flatten([i \in 1..Len(text) |->
            IF text[i].k # "text" THEN <<text[i]>>
            ELSE IF i > 1 /\ text[i - 1].k = "text" THEN <<>>
            ELSE <<TextLx(Flatten([j \in 1..(RunEnd(i) - i + 1) |-> text[i + j - 1].s]))>>])

\* BeautifulSoup(text, 'html.parser'): tags still open at the end are closed
BeautifulSoup(text) ==
    LET stack == FeedAll(<<Tag("[document]", NoAttrs, <<>>)>>, Coalesce(text))
    IN  PopTimes(stack, Len(stack) - 1)[1]

\* every node below a tag, in document order
RECURSIVE Descendants(_)
Descendants(tag) ==
    Flatten([i \in 1..Len(tag.kids) |->
                IF IsTag(tag.kids[i])
                THEN <<tag.kids[i]>> \o Descendants(tag.kids[i])
                ELSE <<tag.kids[i]>>])

None == [none |-> TRUE]

FindAllName(tag, name) ==
    SelectSeq(Descendants(tag), LAMBDA n : IsTag(n) /\ n.name = name)

\* tag.find(name); on None the attribute lookup raises, which None stands for
\* here: every caller treats a None in the chain as AttributeError
FindName(tag, name) ==
    IF tag = None THEN None
    ELSE LET all == FindAllName(tag, name)
         IN  IF all = <<>> THEN None ELSE Head(all)

FindId(tag, id) ==
    LET all == SelectSeq(Descendants(tag),
                   LAMBDA n : IsTag(n) /\ "id" \in DOMAIN n.attrs /\ n.attrs["id"] = id)
    IN  IF all = <<>> THEN None ELSE Head(all)

\* tag.text: the strings below the tag, concatenated
TagText(tag) ==
    Flatten([i \in 1..Len(Descendants(tag)) |->
                IF IsTag(Descendants(tag)[i]) THEN <<>> ELSE Descendants(tag)[i].string])

----------------------------------------------------------------------------
(* parse_table *)

\* str.split(', '): the pieces between the occurrences of the separator
RECURSIVE SplitCommaSpace(_, _)
SplitCommaSpace(s, cur) ==
    IF s = <<>> THEN <<cur>>
    ELSE IF Len(s) >= 2 /\ s[1] = "," /\ s[2] = " "
         THEN <<cur>> \o SplitCommaSpace(SubSeq(s, 3, Len(s)), <<>>)
    ELSE SplitCommaSpace(Tail(s), Append(cur, Head(s)))

\* unicodedata.normalize('NFC', a): a base letter followed by a combining
\* mark composes to the precomposed letter.  Characters outside ASCII are
\* written by name.
Composed(base, mark) ==
    CASE base = "e" /\ mark = "COMBINING ACUTE" -> "E-ACUTE"
      [] base = "n" /\ mark = "COMBINING TILDE" -> "N-TILDE"
      [] OTHER -> ""

RECURSIVE NFC(_)
NFC(s) ==
    IF Len(s) < 2 THEN s
    ELSE IF Composed(s[1], s[2]) # ""
         THEN <<Composed(s[1], s[2])>> \o NFC(SubSeq(s, 3, Len(s)))
    ELSE <<s[1]>> \o NFC(Tail(s))

NumCells == 11

\* the body of the for loop on one row: the Course, or the exception raised
\* by the first subscript, attribute lookup or int() that fails
ParseRow(row, term, term_code, subject, subject_code) ==
    LET cells == FindAllName(row, "td")
        n == Len(cells)
        T(i) == TagText(cells[i])
    IN  IF n < 1 THEN Raised("IndexError")
        ELSE IF FindName(cells[1], "a") = None THEN Raised("AttributeError")
        ELSE IF n < 8 THEN Raised("IndexError")
        ELSE IF IsRaised(ParseInt(T(8))) THEN Raised("ValueError")
        ELSE IF n < 9 THEN Raised("IndexError")
        ELSE IF IsRaised(ParseInt(T(9))) THEN Raised("ValueError")
        ELSE IF n < NumCells THEN Raised("IndexError")
        ELSE Ok([crn |-> TagText(FindName(cells[1], "a")),
                 id |-> T(2),
                 term |-> term,
                 term_code |-> term_code,
                 subject |-> subject,
                 subject_code |-> subject_code,
                 attributes |-> [i \in 1..Len(SplitCommaSpace(T(3), <<>>)) |->
                                    NFC(SplitCommaSpace(T(3), <<>>)[i])],
                 title |-> T(4),
                 instructor |-> T(5),
                 credit_hours |-> T(6),
                 time |-> parse_time(T(7)),
                 proj_enr |-> ParseInt(T(8)).ok,
                 curr_enr |-> ParseInt(T(9)).ok,
                 seats_avail |-> T(10),
                 status |-> T(11)])

RECURSIVE ParseRows(_, _, _, _, _, _)
ParseRows(trs, rows, term, term_code, subject, subject_code) ==
    IF trs = <<>> THEN Ok(rows)
    ELSE LET c == ParseRow(Head(trs), term, term_code, subject, subject_code)
         IN  IF IsRaised(c) THEN c
             ELSE ParseRows(Tail(trs), Append(rows, c.ok),
                            term, term_code, subject, subject_code)

\* soup.find(id='results').find('table').find('tbody')
ResultsBody(soup) == FindName(FindName(FindId(soup, "results"), "table"), "tbody")

parse_table(soup, term, term_code, subject, subject_code) ==
    IF ResultsBody(soup) = None THEN Raised("AttributeError")
    ELSE ParseRows(FindAllName(ResultsBody(soup), "tr"), <<>>,
                   term, term_code, subject, subject_code)

----------------------------------------------------------------------------
(* fetch.f: the markup repair *)

IsSpaceText(lx) ==
    lx.k = "text" /\ \A i \in 1..Len(lx.s) : lx.s[i] \in SpaceChars

\* the text of the lexeme is exactly the pattern's literal
IsLiteralOpen(lx, name) == lx.k = "open" /\ lx.name = name /\ lx.attrs = NoAttrs

\* re.sub(r'<tbody>', '<tbody><tr>', r.text)
SubTbody(text) ==
    Flatten([i \in 1..Len(text) |->
        IF IsLiteralOpen(text[i], "tbody")
        THEN <<text[i], OpenTag("tr", NoAttrs)>>
        ELSE <<text[i]>>])

\* re.sub(r'</tr>\s*<td>', '</tr><tr><td>', html_normalized): the white space
\* between the two tags is part of the match and is dropped
SubRowStart(text) ==
    LET n == Len(text)
        \* a match starts at i: </tr>, white space or none, <td>
        Starts(i) == /\ text[i] = CloseTag("tr")
                     /\ \/ i + 1 <= n /\ IsLiteralOpen(text[i + 1], "td")
                        \/ /\ i + 2 <= n /\ IsSpaceText(text[i + 1])
                           /\ IsLiteralOpen(text[i + 2], "td")
        \* the white space at i lies inside a match
        Inside(i) == /\ i > 1 /\ i < n /\ IsSpaceText(text[i])
                     /\ text[i - 1] = CloseTag("tr")
                     /\ IsLiteralOpen(text[i + 1], "td")
    IN  Flatten([i \in 1..n |->
            IF Starts(i) THEN <<CloseTag("tr"), OpenTag("tr", NoAttrs)>>
            ELSE IF Inside(i) THEN <<>>
            ELSE <<text[i]>>])

\* the condition of the if: AttributeError when the chain meets None
HasCells(soup) ==
    IF ResultsBody(soup) = None THEN Raised("AttributeError")
    ELSE Ok(Len(FindAllName(ResultsBody(soup), "td")) > 0)

Normalize(text) == SubRowStart(SubTbody(text))

\* f after requests.get has returned r
ParseResponse(text, term, subject) ==
    LET soup == BeautifulSoup(text)
        cells == HasCells(soup)
    IN  IF IsRaised(cells) THEN cells
        ELSE parse_table(IF cells.ok THEN BeautifulSoup(Normalize(text)) ELSE soup,
                         term.name, term.code, subject.name, subject.code)

make_url(term, subject) ==
    <<"https://courselist.wm.edu/courselist/courseinfo/searchresults",
      "?term_code=", term, "&term_subj=", subject,
      "&attr=0&attr2=0&levl=0&status=0&ptrm=0&search=Search">>

\* f(term, subject) given what requests.get does: it raises, or returns a
\* response r whose status is never looked at
f(term, subject, r) ==
    IF r.net # "ok" THEN Raised("ConnectionError")
    ELSE ParseResponse(r.text, term, subject)

----------------------------------------------------------------------------
(* fetch.parse_select *)

\* the body of the for loop on one child of the select element: the list out
\* afterwards, or the exception.  A string is compared with "\n" and, when
\* it differs, subscripted with 'value', which a string does not allow.
SelectBody(out, el) ==
    IF ~IsTag(el)
    THEN (IF el.string = <<"\n">> THEN Ok(out) ELSE Raised("TypeError"))
    ELSE IF "value" \notin DOMAIN el.attrs THEN Raised("KeyError")
    ELSE IF el.attrs["value"] = "0" THEN Ok(out)
    ELSE Ok(Append(out, [name |-> TagText(el), code |-> el.attrs["value"]]))

RECURSIVE SelectLoop(_, _)
SelectLoop(out, els) ==
    IF els = <<>> THEN Ok(out)
    ELSE LET o == SelectBody(out, Head(els))
         IN  IF IsRaised(o) THEN o ELSE SelectLoop(o.ok, Tail(els))

\* iterating soup.find(id=id_) when it is None raises
parse_select(soup, id_) ==
    IF FindId(soup, id_) = None THEN Raised("TypeError")
    ELSE SelectLoop(<<>>, FindId(soup, id_).kids)

----------------------------------------------------------------------------
(* Persistence formatter *)

\* course_to_db_insert_query: the fifteen values in column order
course_to_db_insert_query(c) ==
    <<c.crn, c.id, c.term, c.term_code, c.subject, c.subject_code, c.attributes,
      c.title, c.instructor, c.credit_hours, c.time, c.proj_enr, c.curr_enr,
      c.seats_avail, c.status>>

\* build_query: one VALUES tuple per course, in the order of the list
build_query(courses) ==
    [i \in 1..Len(courses) |-> course_to_db_insert_query(courses[i])]

----------------------------------------------------------------------------
(* The site: what the server may send *)

MaxTerms == 2
MaxSubjects == 2
MaxRows == 3
MaxTokens == 3
MaxChildren == 3

DigitOf(i) == CASE i = 0 -> "0" [] i = 1 -> "1" [] i = 2 -> "2" [] i = 3 -> "3"
                [] i = 4 -> "4" [] i = 5 -> "5" [] i = 6 -> "6" [] i = 7 -> "7"
                [] i = 8 -> "8" [] OTHER -> "9"

Cell(attrs, s) == <<OpenTag("td", attrs), TextLx(s), CloseTag("td")>>

\* the eleven cells of row i.  shape.attr: the first cell's opening tag
\* carries an attribute; shape.enr: the text of the projected-enrollment cell
RowCells(i, shape) ==
    <<OpenTag("td", IF shape.attr THEN [class |-> "crn"] ELSE NoAttrs),
      OpenTag("a", [href |-> "addInfo"]), TextLx(<<"7", DigitOf(i)>>), CloseTag("a"),
      CloseTag("td")>>
    \o Cell(NoAttrs, <<"C", "S", " ", DigitOf(i)>>)
    \o Cell(NoAttrs, <<"G", "E", ",", " ", "e", "COMBINING ACUTE">>)
    \o Cell(NoAttrs, <<"t", DigitOf(i)>>)
    \o Cell(NoAttrs, <<"i">>)
    \o Cell(NoAttrs, <<"3">>)
    \o Cell(NoAttrs, <<"M", "W", ":", "0", "9", "0", "0", "-", "0", "9", "5", "0">>)
    \o Cell(NoAttrs, shape.enr)
    \o Cell([style |-> "c"], <<"8", "\n">>)
    \o Cell(NoAttrs, <<"2", "*">>)
    \o Cell(NoAttrs, <<"O">>)

\* a row as the site sends it: no <tr>, the cells, </tr>.  shape.ws: white
\* space precedes the row
SiteRow(i, shape) ==
    (IF shape.ws THEN <<TextLx(<<"\n", " ">>)>> ELSE <<>>)
    \o RowCells(i, shape) \o <<CloseTag("tr")>>

\* the same row with its <tr>
WellFormedRow(i, shape) ==
    (IF shape.ws THEN <<TextLx(<<"\n", " ">>)>> ELSE <<>>)
    \o <<OpenTag("tr", NoAttrs)>> \o RowCells(i, shape) \o <<CloseTag("tr")>>

ResultsPage(body) ==
    <<OpenTag("div", [id |-> "results"]), OpenTag("table", NoAttrs),
      OpenTag("thead", NoAttrs), OpenTag("tr", NoAttrs), OpenTag("th", NoAttrs),
      TextLx(<<"C", "R", "N">>), CloseTag("th"), CloseTag("tr"), CloseTag("thead"),
      TextLx(<<"\n">>), OpenTag("tbody", NoAttrs)>>
    \o body
    \o <<TextLx(<<"\n">>), CloseTag("tbody"), CloseTag("table"), CloseTag("div")>>

SitePage(shapes) ==
    ResultsPage(Flatten([i \in 1..Len(shapes) |-> SiteRow(i, shapes[i])]))

WellFormedPage(shapes) ==
    ResultsPage(Flatten([i \in 1..Len(shapes) |-> WellFormedRow(i, shapes[i])]))

Plain == [attr |-> FALSE, ws |-> FALSE, enr |-> <<"1", "0">>]

RowShapes == {[Plain EXCEPT !.attr = a, !.ws = w] : a \in BOOLEAN, w \in BOOLEAN}

\* a page with no element of id 'results'
ErrorPage == <<OpenTag("h1", NoAttrs), TextLx(<<"o", "o", "p", "s">>), CloseTag("h1")>>

Option(code, name) ==
    <<OpenTag("option", [value |-> code]), TextLx(name), CloseTag("option")>>

Select(id, content) ==
    <<OpenTag("select", [id |-> id])>> \o content \o <<CloseTag("select")>>

TermCodes == <<"T1", "T2", "T3", "T4">>
SubjectCodes == <<"S1", "S2", "S3", "S4", "S5">>

\* a select as the landing page has it: a placeholder of code 0, then the
\* options, each on a line of its own
Options(codes, n, letter) ==
    <<TextLx(<<"\n", " ", " ">>)>> \o Option("0", <<"A", "l", "l">>)
    \o Flatten([i \in 1..n |->
                  <<TextLx(<<"\n">>)>> \o Option(codes[i], <<letter, DigitOf(i)>>)])
    \o <<TextLx(<<"\n">>)>>

LandingPage(nt, ns) ==
    Select("term_code", Options(TermCodes, nt, "t"))
    \o <<TextLx(<<"\n">>)>>
    \o Select("term_subj", Options(SubjectCodes, ns, "s"))

Landings ==
    {LandingPage(nt, ns) : nt \in 1..MaxTerms, ns \in 0..MaxSubjects}
    \cup {Select("term_code", Options(TermCodes, 1, "t"))}

----------------------------------------------------------------------------
(* Each part at rest, for the specifications of the other parts *)

TimeIdle ==
    ptIn = <<>> /\ ptToks = <<>> /\ ptTimes = EmptyDict /\ ptPc = "idle"

SelectIdle ==
    selIn = <<>> /\ selRest = <<>> /\ selOut = <<>> /\ selPc = "idle"

RepairIdle ==
    rpRows = <<>> /\ rpText = <<>> /\ rpOut = <<>> /\ rpPc = "idle"

NoExc == [none |-> "exc"]
NoRet == [none |-> "ret"]

CrawlIdle ==
    /\ landing = <<>> /\ terms = <<>> /\ subjects = <<>> /\ pc = "idle"
    /\ nSubmitted = 0 /\ fs = <<>> /\ queue = <<>> /\ threads = 0 /\ idleSem = 0
    /\ finished = {} /\ pending = {} /\ exc = NoExc /\ ret = NoRet /\ query = NoRet

----------------------------------------------------------------------------
(* parse_time, one iteration of its loop per step *)

ScheduleTokens ==
    { <<"M", "W", ":", "0", "9", "0", "0", "-", "0", "9", "5", "0">>,
      <<"M", ":", "1", "0", "0", "0", "-", "1", "0", "5", "0">>,
      <<"T", "R", ":", "1", "2", "3", "0", "-", "1", "3", "4", "5", "x">>,
      <<"T", "B", "A">>,
      <<"m", "W", ":", "0", "9", "0", "0", "-", "0", "9", "5", "0">>,
      <<"W", ":", "9", "0", "0", "-", "0", "9", "5", "0">>,
      <<"W", "\t", "F", ":", "0", "8", "0", "0", "-", "0", "8", "5", "0">>,
      <<>> }

RECURSIVE JoinSpace(_)
JoinSpace(toks) ==
    IF toks = <<>> THEN <<>>
    ELSE IF Len(toks) = 1 THEN toks[1]
    ELSE toks[1] \o <<" ">> \o JoinSpace(Tail(toks))

TimeInit ==
    /\ ptIn \in {JoinSpace(toks) : toks \in SeqsUpTo(ScheduleTokens, MaxTokens)}
    /\ ptToks = <<>> /\ ptTimes = EmptyDict /\ ptPc = "call"
    /\ SelectIdle /\ RepairIdle /\ CrawlIdle

ParseTimeCall ==
    /\ ptPc = "call"
    /\ ptToks' = TimeTokens(ptIn)
    /\ ptTimes' = EmptyDict
    /\ ptPc' = "loop"
    /\ UNCHANGED <<ptIn, selVars, rpVars, crVars>>

ParseTimeIter ==
    /\ ptPc = "loop" /\ ptToks # <<>>
    /\ ptTimes' = ParseTimeBody(ptTimes, Head(ptToks))
    /\ ptToks' = Tail(ptToks)
    /\ UNCHANGED <<ptIn, ptPc, selVars, rpVars, crVars>>

ParseTimeReturn ==
    /\ ptPc = "loop" /\ ptToks = <<>>
    /\ ptPc' = "done"
    /\ UNCHANGED <<ptIn, ptToks, ptTimes, selVars, rpVars, crVars>>

TimeNext == ParseTimeCall \/ ParseTimeIter \/ ParseTimeReturn

SpecTime == TimeInit /\ [][TimeNext]_vars

\* The tokens of a schedule string, read off the string itself: <<i, j>> is
\* a maximal run of characters other than the space
C9_Tokens(str) ==
    {ij \in (1..Len(str)) \X (1..Len(str)) :
        /\ ij[1] <= ij[2]
        /\ \A k \in ij[1]..ij[2] : str[k] # " "
        /\ (ij[1] = 1 \/ str[ij[1] - 1] = " ")
        /\ (ij[2] = Len(str) \/ str[ij[2] + 1] = " ")}

\* The token starts with n day letters followed by :HHMM-HHMM
C9_HasDays(tok, n) ==
    /\ n >= 1 /\ Len(tok) >= n + 10
    /\ \A k \in 1..n : tok[k] \in UpperChars
    /\ tok[n + 1] = ":" /\ tok[n + 6] = "-"
    /\ \A k \in {2, 3, 4, 5, 7, 8, 9, 10} : tok[n + k] \in DigitChars

C9_Matches(tok) == \E n \in 1..Len(tok) : C9_HasDays(tok, n)

C9_Days(tok) ==
    {tok[k] : k \in 1..(CHOOSE n \in 1..Len(tok) : C9_HasDays(tok, n))}

C9_Num(a, b) == 10 * DigitVal(a) + DigitVal(b)

C9_Span(tok) ==
    LET n == CHOOSE n \in 1..Len(tok) : C9_HasDays(tok, n)
    IN  [start |-> [hour |-> C9_Num(tok[n + 2], tok[n + 3]),
                    minute |-> C9_Num(tok[n + 4], tok[n + 5])],
         end |-> [hour |-> C9_Num(tok[n + 7], tok[n + 8]),
                  minute |-> C9_Num(tok[n + 9], tok[n + 10])]]

\* the matching tokens that hold day d
C9_With(str, d) ==
    {ij \in C9_Tokens(str) :
        /\ C9_Matches(SubSeq(str, ij[1], ij[2]))
        /\ d \in C9_Days(SubSeq(str, ij[1], ij[2]))}

\* C9: when parse_time returns, the keys of the mapping are exactly the day
\* letters of the tokens that match the pattern (as re.match matches: from
\* the start of the token), each day is mapped to the span of the rightmost
\* matching token that holds it, and the other tokens add nothing; no
\* string makes it raise.
C9_ParseTime ==
    ptPc = "done" =>
        /\ DOMAIN ptTimes = {d \in UpperChars : C9_With(ptIn, d) # {}}
        /\ \A d \in DOMAIN ptTimes :
              \E ij \in C9_With(ptIn, d) :
                  /\ \A o \in C9_With(ptIn, d) : o[1] <= ij[1]
                  /\ ptTimes[d] = C9_Span(SubSeq(ptIn, ij[1], ij[2]))

\* a string in which a day is held by two matching tokens with different
\* spans, beside a token that does not match, has been parsed
C9_Witness ==
    /\ ptPc = "done"
    /\ \E d \in DOMAIN ptTimes : \E a, b \in C9_With(ptIn, d) :
          C9_Span(SubSeq(ptIn, a[1], a[2])) # C9_Span(SubSeq(ptIn, b[1], b[2]))
    /\ \E ij \in C9_Tokens(ptIn) : ~C9_Matches(SubSeq(ptIn, ij[1], ij[2]))

----------------------------------------------------------------------------
(* fetch.parse_select, one child of the select element per step *)

\* what may stand between <select> and </select>
SelectPieces ==
    { Option("0", <<"A", "l", "l">>),
      Option("A", <<"a">>),
      Option("B", <<"b">>),
      <<TextLx(<<"\n">>)>>,
      <<TextLx(<<"\n", " ", " ">>)>>,
      <<TextLx(<<" ">>)>> }

SelectInit ==
    /\ selIn \in {Select("term_code", Flatten(ps)) : ps \in SeqsUpTo(SelectPieces, MaxChildren)}
                 \cup {Select("other", Option("A", <<"a">>))}
    /\ selRest = <<>> /\ selOut = <<>> /\ selPc = "call"
    /\ TimeIdle /\ RepairIdle /\ CrawlIdle

\* for el in soup.find(id=id_)
SelectCall ==
    /\ selPc = "call"
    /\ LET el == FindId(BeautifulSoup(selIn), "term_code")
       IN  /\ selPc' = IF el = None THEN "raised" ELSE "loop"
           /\ selRest' = IF el = None THEN <<>> ELSE el.kids
    /\ selOut' = <<>>
    /\ UNCHANGED <<selIn, ptVars, rpVars, crVars>>

SelectIter ==
    /\ selPc = "loop" /\ selRest # <<>>
    /\ LET o == SelectBody(selOut, Head(selRest))
       IN  /\ selPc' = IF IsRaised(o) THEN "raised" ELSE "loop"
           /\ selOut' = IF IsRaised(o) THEN selOut ELSE o.ok
    /\ selRest' = Tail(selRest)
    /\ UNCHANGED <<selIn, ptVars, rpVars, crVars>>

SelectReturn ==
    /\ selPc = "loop" /\ selRest = <<>>
    /\ selPc' = "done"
    /\ UNCHANGED <<selIn, selRest, selOut, ptVars, rpVars, crVars>>

SelectNext == SelectCall \/ SelectIter \/ SelectReturn

SpecSelect == SelectInit /\ [][SelectNext]_vars

\* The option entries of a selection list, read off the page's text: an
\* option is the three lexemes <option value=..>, its name, </option>
C10_Options(text) ==
    [i \in 1..Len(SelectSeq(text, LAMBDA lx : lx.k = "open" /\ lx.name = "option")) |->
        LET at == CHOOSE p \in 1..Len(text) :
                     /\ text[p].k = "open" /\ text[p].name = "option"
                     /\ Cardinality({q \in 1..p : text[q].k = "open"
                                                   /\ text[q].name = "option"}) = i
        IN  [name |-> text[at + 1].s, code |-> text[at].attrs["value"]]]

C10_HasList(text) ==
    \E p \in 1..Len(text) : text[p] = OpenTag("select", [id |-> "term_code"])

\* C10 as claimed: for every selection list made of option entries and
\* white-space-only strings, parse_select returns, without raising, the
\* descriptors of the options whose code is not "0", in document order.
C10_Claim ==
    (selPc \in {"done", "raised"} /\ C10_HasList(selIn)) =>
        /\ selPc = "done"
        /\ selOut = SelectSeq(C10_Options(selIn), LAMBDA o : o.code # "0")

----------------------------------------------------------------------------
(* fetch.f on one response, from the response to the rows *)

RepairInit ==
    /\ rpRows \in SeqsUpTo(RowShapes, MaxRows)
    /\ rpText = SitePage(rpRows)
    /\ rpOut = <<>> /\ rpPc = "got"
    /\ TimeIdle /\ SelectIdle /\ CrawlIdle

\* the if of f: the document is rewritten when its body holds a cell
RepairMarkup ==
    /\ rpPc = "got"
    /\ LET cells == HasCells(BeautifulSoup(rpText))
       IN  /\ rpPc' = IF IsRaised(cells) THEN "raised" ELSE "repaired"
           /\ rpText' = IF ~IsRaised(cells) /\ cells.ok THEN Normalize(rpText) ELSE rpText
    /\ UNCHANGED <<rpRows, rpOut, ptVars, selVars, crVars>>

ExtractTable ==
    /\ rpPc = "repaired"
    /\ LET rows == parse_table(BeautifulSoup(rpText), <<"t">>, "T1", <<"s">>, "S1")
       IN  /\ rpPc' = IF IsRaised(rows) THEN "raised" ELSE "done"
           /\ rpOut' = IF IsRaised(rows) THEN <<>> ELSE rows.ok
    /\ UNCHANGED <<rpRows, rpText, ptVars, selVars, crVars>>

RepairNext == RepairMarkup \/ ExtractTable

SpecRepair == RepairInit /\ [][RepairNext]_vars

C8_Reference ==
    parse_table(BeautifulSoup(WellFormedPage(rpRows)), <<"t">>, "T1", <<"s">>, "S1")

\* C8 as claimed: a body of k >= 1 rows sent without <tr>, once repaired,
\* extracts to the k records its well-formed equivalent extracts to; a body
\* without cells is not rewritten and extracts to no record.
C8_Claim ==
    rpPc \in {"done", "raised"} =>
        /\ rpPc = "done"
        /\ rpOut = C8_Reference.ok
        /\ Len(rpOut) = Len(rpRows)
        /\ Len(rpRows) = 0 => rpText = SitePage(rpRows)

\* The round trip where every row starts with the literal <td>
C8_LiteralRoundTrip ==
    (rpPc \in {"done", "raised"} /\ \A i \in 1..Len(rpRows) : ~rpRows[i].attr) =>
        /\ rpPc = "done"
        /\ rpOut = C8_Reference.ok
        /\ Len(rpOut) = Len(rpRows)

----------------------------------------------------------------------------
(* fetch() and __main__ *)

MAX_CONCURRENCY == 20
TermSlice == 1
SubjectSlice == 10
\* the timeout of futures.wait; time is not counted: the timeout may elapse
\* at any moment at which some future is not done
WaitTimeout == 60

\* what requests.get(url) may do inside a task
Responses ==
    [ empty   |-> [net |-> "ok", status |-> 200, text |-> SitePage(<<>>)],
      one     |-> [net |-> "ok", status |-> 200, text |-> SitePage(<<Plain>>)],
      two     |-> [net |-> "ok", status |-> 200,
                   text |-> SitePage(<<Plain, [Plain EXCEPT !.ws = TRUE]>>)],
      badint  |-> [net |-> "ok", status |-> 200,
                   text |-> SitePage(<<[Plain EXCEPT !.enr = <<"N", "A">>]>>)],
      missing |-> [net |-> "ok", status |-> 404, text |-> ErrorPage],
      stale   |-> [net |-> "ok", status |-> 500, text |-> SitePage(<<Plain>>)],
      refused |-> [net |-> "error", status |-> 0, text |-> <<>>] ]

ResponseNames == <<"empty", "one", "two", "badint", "missing", "stale", "refused">>

\* the descriptors parse_select yields for the i-th option of a landing page
TermAt(i) == [name |-> <<"t", DigitOf(i)>>, code |-> TermCodes[i]]
SubjectAt(i) == [name |-> <<"s", DigitOf(i)>>, code |-> SubjectCodes[i]]

\* f(term, subject, r) for every term, subject and response, worked out once
OutcomeTable ==
    <<>> \o [k \in 1..(Len(TermCodes) * Len(SubjectCodes) * Len(ResponseNames)) |->
        f(TermAt(((k - 1) \div (Len(SubjectCodes) * Len(ResponseNames))) + 1),
          SubjectAt((((k - 1) \div Len(ResponseNames)) % Len(SubjectCodes)) + 1),
          Responses[ResponseNames[((k - 1) % Len(ResponseNames)) + 1]])]

IndexOf(seq, x) == CHOOSE i \in 1..Len(seq) : seq[i] = x

\* what f(term, subject) yields when requests.get answers with response r
TaskOutcome(term, subject, r) ==
    OutcomeTable[(IndexOf(TermCodes, term.code) - 1) * Len(SubjectCodes) * Len(ResponseNames)
                 + (IndexOf(SubjectCodes, subject.code) - 1) * Len(ResponseNames)
                 + IndexOf(ResponseNames, r)]

Take(seq, n) == SubSeq(seq, 1, IF Len(seq) < n THEN Len(seq) ELSE n)

\* for term in terms[:1]: for subject in subjects[:10]: the pairs in the
\* order of the two loops
PairsToSubmit ==
    LET ts == Take(terms, TermSlice)
        ss == Take(subjects, SubjectSlice)
    IN  [k \in 1..(Len(ts) * Len(ss)) |->
            [term |-> ts[((k - 1) \div Len(ss)) + 1],
             subject |-> ss[((k - 1) % Len(ss)) + 1]]]

Running == {i \in 1..Len(fs) : fs[i].state = "running"}
Done == {i \in 1..Len(fs) : fs[i].state = "done"}

Perms(S) == {p \in [1..Cardinality(S) -> S] : Range(p) = S}

TimeoutExc == [raised |-> "Exception: some jobs did not complete successfully",
               from |-> 0]

CrawlInit ==
    /\ landing \in Landings
    /\ terms = <<>> /\ subjects = <<>> /\ pc = "start"
    /\ nSubmitted = 0 /\ fs = <<>> /\ queue = <<>> /\ threads = 0 /\ idleSem = 0
    /\ finished = {} /\ pending = {} /\ exc = NoExc /\ ret = NoRet /\ query = NoRet
    /\ TimeIdle /\ SelectIdle /\ RepairIdle

\* the landing page is fetched and its two lists parsed; the executor is
\* entered when both parsed
FetchIndex ==
    /\ pc = "start"
    /\ LET soup == BeautifulSoup(landing)
           t == parse_select(soup, "term_code")
           u == parse_select(soup, "term_subj")
       IN  IF IsRaised(t) \/ IsRaised(u)
           THEN /\ exc' = [raised |-> (IF IsRaised(t) THEN t ELSE u).raised, from |-> 0]
                /\ pc' = "raised"
                /\ UNCHANGED <<terms, subjects>>
           ELSE /\ terms' = t.ok /\ subjects' = u.ok
                /\ pc' = "submit"
                /\ exc' = exc
    /\ UNCHANGED <<landing, nSubmitted, fs, queue, threads, idleSem, finished,
                   pending, ret, query, ptVars, selVars, rpVars>>

\* fs.append(executor.submit(f, term, subject)): the work item is queued; a
\* worker thread is started unless one is idle or the pool is at its width
Submit ==
    /\ pc = "submit" /\ nSubmitted < Len(PairsToSubmit)
    /\ LET p == PairsToSubmit[nSubmitted + 1]
       IN  fs' = Append(fs, [term |-> p.term, subject |-> p.subject,
                             url |-> make_url(p.term.code, p.subject.code),
                             state |-> "queued", resp |-> "none", out |-> None])
    /\ queue' = Append(queue, Len(fs) + 1)
    /\ nSubmitted' = nSubmitted + 1
    /\ IF idleSem > 0 THEN idleSem' = idleSem - 1 /\ threads' = threads
       ELSE IF threads < MAX_CONCURRENCY THEN threads' = threads + 1 /\ idleSem' = idleSem
       ELSE UNCHANGED <<threads, idleSem>>
    /\ UNCHANGED <<landing, terms, subjects, pc, finished, pending, exc, ret, query,
                   ptVars, selVars, rpVars>>

\* the two loops are over: futures.wait is called
SubmitDone ==
    /\ pc = "submit" /\ nSubmitted = Len(PairsToSubmit)
    /\ pc' = "wait"
    /\ UNCHANGED <<landing, terms, subjects, nSubmitted, fs, queue, threads, idleSem,
                   finished, pending, exc, ret, query, ptVars, selVars, rpVars>>

\* the newest work item instead of the oldest
NewestWorkItem == queue[Len(queue)]

\* the work item a worker takes from the queue
NextWorkItem == Head(queue)

\* a worker thread that runs nothing takes a work item and starts it
StartTask ==
    /\ queue # <<>> /\ Cardinality(Running) < threads
    /\ fs' = [fs EXCEPT ![NextWorkItem].state = "running"]
    /\ queue' = SelectSeq(queue, LAMBDA i : i # NextWorkItem)
    /\ UNCHANGED <<landing, terms, subjects, pc, nSubmitted, threads, idleSem,
                   finished, pending, exc, ret, query, ptVars, selVars, rpVars>>

\* a running task gets its response and runs f to its end; the future holds
\* the rows or the exception, and the worker is idle again
FinishTask(i, r) ==
    /\ i \in Running
    /\ fs' = [fs EXCEPT ![i].state = "done", ![i].resp = r,
                        ![i].out = TaskOutcome(fs[i].term, fs[i].subject, r)]
    /\ idleSem' = idleSem + 1
    /\ UNCHANGED <<landing, terms, subjects, pc, nSubmitted, queue, threads,
                   finished, pending, exc, ret, query, ptVars, selVars, rpVars>>

\* futures.wait(fs, timeout=60, return_when=ALL_COMPLETED) returns with
\* every future done
WaitAllDone ==
    /\ pc = "wait" /\ Done = 1..Len(fs)
    /\ finished' = Done /\ pending' = {}
    /\ pc' = "waited"
    /\ UNCHANGED <<landing, terms, subjects, nSubmitted, fs, queue, threads, idleSem,
                   exc, ret, query, ptVars, selVars, rpVars>>

\* ... or its timeout elapses with some future not done
WaitTimedOut ==
    /\ pc = "wait" /\ Done # 1..Len(fs)
    /\ finished' = Done /\ pending' = (1..Len(fs)) \ Done
    /\ pc' = "waited"
    /\ UNCHANGED <<landing, terms, subjects, nSubmitted, fs, queue, threads, idleSem,
                   exc, ret, query, ptVars, selVars, rpVars>>

\* the pending futures are ignored and the finished ones collected
IgnorePending ==
    /\ pc = "waited" /\ pending # {}
    /\ ret' = Ok(Flatten([k \in 1..Len(fs) |->
                    IF k \in finished /\ ~IsRaised(fs[k].out) THEN fs[k].out.ok ELSE <<>>]))
    /\ pc' = "exit"
    /\ UNCHANGED <<landing, terms, subjects, nSubmitted, fs, queue, threads, idleSem,
                   finished, pending, exc, query, ptVars, selVars, rpVars>>

\* if len(pending) > 0: raise Exception(...)
RaisePending ==
    /\ pc = "waited" /\ pending # {}
    /\ exc' = TimeoutExc
    /\ pc' = "exit"
    /\ UNCHANGED <<landing, terms, subjects, nSubmitted, fs, queue, threads, idleSem,
                   finished, pending, ret, query, ptVars, selVars, rpVars>>

\* the flattening loses the last result set
CollectAllButLast(order) ==
    LET failed == {k \in 1..Len(order) : IsRaised(fs[order[k]].out)}
        first == CHOOSE k \in failed : \A j \in failed : k <= j
    IN  IF failed # {}
        THEN /\ exc' = [raised |-> fs[order[first]].out.raised, from |-> order[first]]
             /\ ret' = ret
        ELSE /\ ret' = Ok(Flatten([k \in 1..(Len(order) - 1) |-> fs[order[k]].out.ok]))
             /\ exc' = exc

\* result_sets = [f.result(timeout=1) for f in finished], in the order in
\* which the set finished is iterated, then the flattening: the first
\* future holding an exception re-raises it
Collect(order) ==
    LET failed == {k \in 1..Len(order) : IsRaised(fs[order[k]].out)}
        first == CHOOSE k \in failed : \A j \in failed : k <= j
    IN  IF failed # {}
        THEN /\ exc' = [raised |-> fs[order[first]].out.raised, from |-> order[first]]
             /\ ret' = ret
        ELSE /\ ret' = Ok(Flatten([k \in 1..Len(order) |-> fs[order[k]].out.ok]))
             /\ exc' = exc

CollectResults ==
    /\ pc = "waited" /\ pending = {}
    /\ \E order \in Perms(finished) : Collect(order)
    /\ pc' = "exit"
    /\ UNCHANGED <<landing, terms, subjects, nSubmitted, fs, queue, threads, idleSem,
                   finished, pending, query, ptVars, selVars, rpVars>>

\* shutdown(wait=False): the with block is left at once
PoolNotJoined == TRUE

\* what leaving the with block waits for: shutdown(wait=True) joins the
\* workers, which run every queued work item first
PoolJoined == queue = <<>> /\ Done = 1..Len(fs)

\* the with block is left, by return or by the exception
ExitPool ==
    /\ pc = "exit" /\ PoolJoined
    /\ pc' = IF exc = NoExc THEN "returned" ELSE "raised"
    /\ UNCHANGED <<landing, terms, subjects, nSubmitted, fs, queue, threads, idleSem,
                   finished, pending, exc, ret, query, ptVars, selVars, rpVars>>

\* write_to_db is called whether fetch() returned or raised
MainWritesAnyway == pc \in {"returned", "raised"}

\* where __main__ calls write_to_db: after fetch() has returned
MainWrites == pc = "returned"

\* write_to_db(1, courses)
WriteToDb ==
    /\ MainWrites
    /\ query' = Ok(build_query(IF ret = NoRet THEN <<>> ELSE ret.ok))
    /\ pc' = "written"
    /\ UNCHANGED <<landing, terms, subjects, nSubmitted, fs, queue, threads, idleSem,
                   finished, pending, exc, ret, ptVars, selVars, rpVars>>

Next ==
    \/ FetchIndex
    \/ Submit
    \/ SubmitDone
    \/ StartTask
    \/ \E i \in 1..Len(fs), r \in Range(ResponseNames) : FinishTask(i, r)
    \/ WaitAllDone
    \/ WaitTimedOut
    \/ RaisePending
    \/ CollectResults
    \/ ExitPool
    \/ WriteToDb

Init == CrawlInit

Spec == Init /\ [][Next]_vars

----------------------------------------------------------------------------
(* The crawl: claims *)

SubmissionOver == pc \in {"wait", "waited", "exit", "returned", "written"}
FetchOver == pc \in {"returned", "raised", "written"}

\* C1 as claimed: once the submission loop is over, every pair of a term and
\* a subject of the landing page has exactly one task.
C1_Claim ==
    SubmissionOver =>
        \A a \in 1..Len(terms), b \in 1..Len(subjects) :
            Cardinality({i \in 1..Len(fs) : /\ fs[i].term = terms[a]
                                             /\ fs[i].subject = subjects[b]}) = 1

\* C2: when the wait ends with a future pending, fetch() returns no list,
\* nothing is written, and the exception it raises is the one of the
\* pending check, whatever the futures that did finish hold.
C2_TimeoutFails ==
    pending # {} =>
        /\ ret = NoRet /\ query = NoRet
        /\ pc \in {"waited", "exit", "raised"}
        /\ pc # "waited" => exc = TimeoutExc

\* the run has failed on the timeout although a finished task holds rows
C2_Witness ==
    /\ pc = "raised" /\ pending # {}
    /\ \E i \in finished : ~IsRaised(fs[i].out) /\ Len(fs[i].out.ok) >= 1

\* the task ended in one of the errors C3 lists
C3_TaskErred(i) ==
    /\ fs[i].state = "done"
    /\ \/ Responses[fs[i].resp].net # "ok"
       \/ Responses[fs[i].resp].status \notin 200..299
       \/ IsRaised(fs[i].out)

\* C3 as claimed: once fetch() is over, a task that met a network failure, a
\* non-success response, a missing structure or a non-integer enrollment
\* has made fetch() raise and return no courses.
C3_Claim ==
    (FetchOver /\ \E i \in 1..Len(fs) : C3_TaskErred(i)) =>
        pc = "raised" /\ exc # NoExc /\ ret = NoRet

\* What holds of the code: a task whose f raised makes fetch() raise
C3_RaisingTaskFails ==
    (FetchOver /\ \E i \in 1..Len(fs) : fs[i].state = "done" /\ IsRaised(fs[i].out)) =>
        pc = "raised" /\ exc # NoExc /\ ret = NoRet /\ query = NoRet

\* C4: the list fetch() returns is the concatenation, in some order of the
\* tasks, of the lists the tasks returned: each task's rows once, together
\* and in the task's order.
C4_Concatenation ==
    pc \in {"returned", "written"} =>
        /\ \A i \in 1..Len(fs) : fs[i].state = "done" /\ ~IsRaised(fs[i].out)
        /\ \E p \in Perms(1..Len(fs)) :
              ret = Ok(Flatten([k \in 1..Len(fs) |-> fs[p[k]].out.ok]))

\* fetch() has returned the rows of the second task before those of the first
C4_Witness ==
    /\ pc = "returned" /\ Len(fs) >= 2
    /\ ~IsRaised(fs[1].out) /\ ~IsRaised(fs[2].out)
    /\ Len(fs[1].out.ok) >= 1 /\ Len(fs[2].out.ok) >= 2
    /\ SubSeq(ret.ok, 1, Len(fs[2].out.ok)) = fs[2].out.ok
    /\ SubSeq(ret.ok, 1, Len(fs[1].out.ok)) # fs[1].out.ok

C7_WriteAfterFetch ==
    /\ (pc = "written" \/ query # NoRet) =>
          /\ queue = <<>> /\ Done = 1..Len(fs)
          /\ pending = {} /\ exc = NoExc /\ ret # NoRet
    /\ exc # NoExc => query = NoRet

\* the rows of two tasks have been written
C7_Witness ==
    pc = "written" /\ Len(fs) >= 2 /\ Len(query.ok) >= 2

====
